---- MODULE Spec2Model ----
(***************************************************************************)
(* A model of the contract view-function CLI (main.go): flag validation,   *)
(* RPC dial, ABI selection, argument coercion, the single view call and    *)
(* the formatting of the decoded results.                                  *)
(*                                                                         *)
(* Text is a sequence of one-character strings.  A big.Int is a sign and a *)
(* magnitude of base-10 limbs, least significant first, normalised (no     *)
(* leading zero limb; zero is the empty magnitude), as math/big keeps its  *)
(* nat.                                                                    *)
(***************************************************************************)
EXTENDS Integers, Sequences, FiniteSets, TLC

\* ------------------------------------------------------------------ bounds

\* longest list of comma separated tokens in -args
MaxArgs == 2
\* longest run of free characters in a generated token
MaxLen == 2
\* largest number of leading zero digits placed in a generated fraction
MaxLead == 2
\* longest list of decoded results placed before a generated integer
MaxResults == 2

\* ------------------------------------------------------------- characters

DecChars == <<"0", "1", "2", "3", "4", "5", "6", "7", "8", "9">>
LowerHexChars == DecChars \o <<"a", "b", "c", "d", "e", "f">>
UpperHexChars == DecChars \o <<"A", "B", "C", "D", "E", "F">>

Range(s) == {s[i] : i \in DOMAIN s}
Max(S) == CHOOSE x \in S : \A y \in S : y <= x
Min(S) == CHOOSE x \in S : \A y \in S : x <= y

\* number of characters in the text form of an address: 2 * AddressLength
AddressHexLen == 40
\* bytes in an address
AddressLength == 20
\* the exponent of the rescale denominator
RescaleExp == 18
\* decimal digits held by one limb of a magnitude
LimbDigits == 4

LimbBase == 10 ^ LimbDigits

Rep(c, n) == [i \in 1..n |-> c]

IsHexChar(c) == c \in Range(LowerHexChars) \cup Range(UpperHexChars)

\* the value of a digit character, as math/big's scan reads it
DigitVal(c) ==
    CHOOSE d \in 0..15 : LowerHexChars[d + 1] = c \/ UpperHexChars[d + 1] = c

IsDigitOfBase(c, base) == IsHexChar(c) /\ DigitVal(c) < base

\* unicode.IsSpace, over the characters the model draws
IsSpace(c) == c \in {" ", "\t"}

\* ------------------------------------------------------------ strings pkg

\* strings.TrimSpace: what lies between the first and the last character
\* that is no white space
TrimSpace(s) ==
    LET keep == {i \in DOMAIN s : ~IsSpace(s[i])}
    IN  IF keep = {} THEN <<>> ELSE SubSeq(s, Min(keep), Max(keep))

HasPrefix(s, p) == Len(s) >= Len(p) /\ SubSeq(s, 1, Len(p)) = p

\* strings.Split(s, ","): every substring between separators, empty ones
\* kept, so one more substring than there are separators
Split(s) ==
    LET seps   == {i \in DOMAIN s : s[i] = ","}
        sep(k) == IF k = 0 THEN 0
                  ELSE IF k > Cardinality(seps) THEN Len(s) + 1
                  ELSE CHOOSE p \in seps : Cardinality({q \in seps : q < p}) = k - 1
    IN  [k \in 1..(Cardinality(seps) + 1) |-> SubSeq(s, sep(k - 1) + 1, sep(k) - 1)]

\* ------------------------------------------------------------- math/big

\* nat.norm: drop the most significant zero limbs
Norm(m) ==
    LET nz == {i \in DOMAIN m : m[i] # 0}
    IN  IF nz = {} THEN <<>> ELSE SubSeq(m, 1, Max(nz))

RECURSIVE NatOfInt(_)
NatOfInt(c) ==
    IF c = 0 THEN <<>> ELSE <<c % LimbBase>> \o NatOfInt(c \div LimbBase)

\* m * b + c for a small multiplier b and a small addend c
RECURSIVE MulAdd(_, _, _)
MulAdd(m, b, c) ==
    IF m = <<>> THEN NatOfInt(c)
    ELSE LET t == Head(m) * b + c
         IN  <<t % LimbBase>> \o MulAdd(Tail(m), b, t \div LimbBase)

\* -1, 0, 1 as a < b, a = b, a > b (both normalised)
NatCmp(a, b) ==
    IF Len(a) < Len(b) THEN -1
    ELSE IF Len(a) > Len(b) THEN 1
    ELSE LET diff == {i \in DOMAIN a : a[i] # b[i]}
         IN  IF diff = {} THEN 0
             ELSE IF a[Max(diff)] < b[Max(diff)] THEN -1 ELSE 1

\* a - b for a >= b, limb by limb with a borrow
RECURSIVE SubFrom(_, _, _, _)
SubFrom(a, b, i, borrow) ==
    IF i > Len(a) THEN <<>>
    ELSE LET bi == IF i <= Len(b) THEN b[i] ELSE 0
             t  == a[i] - bi - borrow
         IN  IF t < 0
             THEN <<t + LimbBase>> \o SubFrom(a, b, i + 1, 1)
             ELSE <<t>> \o SubFrom(a, b, i + 1, 0)

NatSub(a, b) == Norm(SubFrom(a, b, 1, 0))

\* b^e for a small base b, a word-sized power of b at a time
RECURSIVE NatExp(_, _)
NatExp(b, e) ==
    IF e = 0 THEN <<1>>
    ELSE LET n == IF e < LimbDigits THEN e ELSE LimbDigits
         IN  MulAdd(NatExp(b, e - n), b ^ n, 0)

\* the largest q in lo..hi with b * q <= r, given b * lo <= r
RECURSIVE Fit(_, _, _, _)
Fit(r, b, lo, hi) ==
    IF lo = hi THEN lo
    ELSE LET mid == (lo + hi + 1) \div 2
         IN  IF NatCmp(Norm(MulAdd(b, mid, 0)), r) <= 0
             THEN Fit(r, b, mid, hi)
             ELSE Fit(r, b, lo, mid - 1)

\* long division of the limbs a[i..] by b # 0, one quotient limb at a time
\* from the most significant limb of a down
RECURSIVE DivFrom(_, _, _)
DivFrom(a, b, i) ==
    IF i > Len(a) THEN [q |-> <<>>, r |-> <<>>]
    ELSE LET up  == DivFrom(a, b, i + 1)
             cur == Norm(<<a[i]>> \o up.r)
             k   == Fit(cur, b, 0, LimbBase - 1)
         IN  [q |-> <<k>> \o up.q, r |-> NatSub(cur, Norm(MulAdd(b, k, 0)))]

NatDivMod(a, b) ==
    LET d == DivFrom(a, b, 1) IN [q |-> Norm(d.q), r |-> d.r]

BigInt(neg, mag) == [neg |-> neg /\ mag # <<>>, mag |-> mag]

\* big.Int.Cmp(big.NewInt(0))
Sign(v) == IF v.mag = <<>> THEN 0 ELSE IF v.neg THEN -1 ELSE 1

\* big.Int.Div and Mod: Euclidean division, 0 <= remainder < |d|, for d > 0
BigDiv(v, d) ==
    LET qr == NatDivMod(v.mag, d)
    IN  IF v.neg /\ qr.r # <<>>
        THEN BigInt(TRUE, MulAdd(qr.q, 1, 1))
        ELSE BigInt(v.neg, qr.q)

BigMod(v, d) ==
    LET qr == NatDivMod(v.mag, d)
    IN  IF v.neg /\ qr.r # <<>>
        THEN BigInt(FALSE, NatSub(d, qr.r))
        ELSE BigInt(FALSE, qr.r)

\* the decimal digits of a limb, most significant first, at a given width
LimbString(x, width) ==
    [i \in 1..width |-> DecChars[((x \div (10 ^ (width - i))) % 10) + 1]]

\* the number of decimal digits of a limb x > 0
LimbWidth(x) == Min({w \in 1..LimbDigits : x < 10 ^ w})

\* big.Int.String: decimal, most significant digit first
NatString(m) ==
    LET n   == Len(m)
        top == LimbWidth(m[n])
    IN  [i \in 1..(top + LimbDigits * (n - 1)) |->
            IF i <= top THEN LimbString(m[n], top)[i]
            ELSE LET j == i - top - 1
                 IN  LimbString(m[n - 1 - (j \div LimbDigits)], LimbDigits)
                                [(j % LimbDigits) + 1]]

BigString(v) ==
    IF v.mag = <<>> THEN <<"0">>
    ELSE (IF v.neg THEN <<"-">> ELSE <<>>) \o NatString(v.mag)

\* the value of a short run of digits
RECURSIVE ChunkVal(_, _, _)
ChunkVal(s, base, acc) ==
    IF s = <<>> THEN acc ELSE ChunkVal(Tail(s), base, acc * base + DigitVal(Head(s)))

\* nat.scan over the digits of s in the given base: the digits are gathered
\* from the left in runs short enough for a machine word, and each run is
\* folded in with one multiply-and-add
RECURSIVE ScanDigits(_, _)
ScanDigits(s, base) ==
    IF s = <<>> THEN <<>>
    ELSE LET n == IF Len(s) % LimbDigits = 0 THEN LimbDigits ELSE Len(s) % LimbDigits
         IN  MulAdd(ScanDigits(SubSeq(s, 1, Len(s) - n), base), base ^ n,
                    ChunkVal(SubSeq(s, Len(s) - n + 1, Len(s)), base, 0))

\* big.Int.SetString(s, base) for base 10 or 16: an optional sign, then one
\* or more digits of the base and nothing else
SetString(s, base) ==
    LET signed == s # <<>> /\ s[1] \in {"+", "-"}
        digits == IF signed THEN SubSeq(s, 2, Len(s)) ELSE s
        ok     == digits # <<>> /\ \A i \in DOMAIN digits : IsDigitOfBase(digits[i], base)
    IN  IF ok
        THEN [ok |-> TRUE,
              val |-> BigInt(signed /\ s[1] = "-", Norm(ScanDigits(digits, base)))]
        ELSE [ok |-> FALSE, val |-> BigInt(FALSE, <<>>)]

\* --------------------------------------------------- common (go-ethereum)

\* has0xPrefix: "0x" or "0X"
Has0xPrefix(s) == Len(s) >= 2 /\ s[1] = "0" /\ s[2] \in {"x", "X"}

\* common.IsHexAddress: an optional prefix, then exactly 2 * AddressLength
\* hex characters of either case
IsHexAddress(s) ==
    LET h == IF Has0xPrefix(s) THEN SubSeq(s, 3, Len(s)) ELSE s
    IN  Len(h) = AddressHexLen /\ \A k \in DOMAIN h : IsHexChar(h[k])

\* common.HexToAddress on a well-formed address: the bytes its hex pairs spell
HexToAddress(s) ==
    LET h == IF Has0xPrefix(s) THEN SubSeq(s, 3, Len(s)) ELSE s
    IN  [k \in 1..AddressLength |-> 16 * DigitVal(h[2 * k - 1]) + DigitVal(h[2 * k])]

\* Address.Hex without the checksum casing: "0x" and lower-case hex pairs
HexOfBytes(b) ==
    [i \in 1..(2 * Len(b)) |->
        IF i % 2 = 1 THEN LowerHexChars[(b[(i + 1) \div 2] \div 16) + 1]
        ELSE LowerHexChars[(b[i \div 2] % 16) + 1]]

AddressHex(a) == <<"0", "x">> \o HexOfBytes(a)

\* ------------------------------------------------------- typed arguments

NoBig == BigInt(FALSE, <<>>)

AddressArg(a) == [kind |-> "address", addr |-> a, big |-> NoBig, str |-> <<>>]
BigIntArg(v) == [kind |-> "bigInt", addr |-> <<>>, big |-> v, str |-> <<>>]
StringArg(s) == [kind |-> "string", addr |-> <<>>, big |-> NoBig, str |-> s]

\* the coercion with the 0x test ahead of the address test
CoerceArgPrefixFirst(token) ==
    IF HasPrefix(token, <<"0", "x">>)
    THEN LET r == SetString(SubSeq(token, 3, Len(token)), 16)
         IN  IF r.ok THEN [fatal |-> FALSE, val |-> BigIntArg(r.val)]
             ELSE [fatal |-> TRUE, val |-> StringArg(token)]
    ELSE IF IsHexAddress(token)
    THEN [fatal |-> FALSE, val |-> AddressArg(HexToAddress(token))]
    ELSE LET r == SetString(token, 10)
         IN  IF r.ok THEN [fatal |-> FALSE, val |-> BigIntArg(r.val)]
             ELSE [fatal |-> FALSE, val |-> StringArg(token)]

\* the coercion with a failed base-10 parse as fatal as a failed base-16 one
CoerceArgStrict(token) ==
    IF IsHexAddress(token)
    THEN [fatal |-> FALSE, val |-> AddressArg(HexToAddress(token))]
    ELSE IF HasPrefix(token, <<"0", "x">>)
    THEN LET r == SetString(SubSeq(token, 3, Len(token)), 16)
         IN  IF r.ok THEN [fatal |-> FALSE, val |-> BigIntArg(r.val)]
             ELSE [fatal |-> TRUE, val |-> StringArg(token)]
    ELSE LET r == SetString(token, 10)
         IN  IF r.ok THEN [fatal |-> FALSE, val |-> BigIntArg(r.val)]
             ELSE [fatal |-> TRUE, val |-> StringArg(token)]

\* the type sniffing of the argument loop over a trimmed token: the typed
\* argument, or the fatal hex failure
CoerceArg(token) ==
    IF IsHexAddress(token)
    THEN [fatal |-> FALSE, val |-> AddressArg(HexToAddress(token))]
    ELSE IF HasPrefix(token, <<"0", "x">>)
    THEN LET r == SetString(SubSeq(token, 3, Len(token)), 16)
         IN  IF r.ok
             THEN [fatal |-> FALSE, val |-> BigIntArg(r.val)]
             ELSE [fatal |-> TRUE, val |-> StringArg(token)]
    ELSE LET r == SetString(token, 10)
         IN  IF r.ok
             THEN [fatal |-> FALSE, val |-> BigIntArg(r.val)]
             ELSE [fatal |-> FALSE, val |-> StringArg(token)]

\* ------------------------------------------------------------------ ABIs

\* An ABI fragment is its text as a sequence of lexemes; a function entry is
\* { name N inputs I outputs O }, I and O naming the type lists.
AbiEntry(name, inputs, outputs) ==
    <<"{", "name", name, "inputs", inputs, "outputs", outputs, "}">>

ERC20ABI ==
    <<"[">> \o AbiEntry("name", "()", "(string)")
            \o AbiEntry("symbol", "()", "(string)")
            \o AbiEntry("decimals", "()", "(uint8)")
            \o AbiEntry("totalSupply", "()", "(uint256)")
            \o AbiEntry("balanceOf", "(address)", "(uint256)")
            \o <<"]">>

SimpleStorageABI ==
    <<"[">> \o AbiEntry("retrieve", "()", "(uint256)")
            \o AbiEntry("store", "(uint256)", "()")
            \o <<"]">>

GenericFallbackABI ==
    <<"[">> \o AbiEntry("FUNCTION_PLACEHOLDER", "()", "(uint256)") \o <<"]">>

getContractABI(type) ==
    CASE type = "erc20" -> ERC20ABI
      [] type = "storage" -> SimpleStorageABI
      [] OTHER -> GenericFallbackABI

\* strings.Replace(s, old, new, 1): the first occurrence of old, if any
ReplaceFirst(s, old, new) ==
    LET at == {i \in DOMAIN s : s[i] = old}
    IN  IF at = {} THEN s ELSE [s EXCEPT ![Min(at)] = new]

\* the ABI chosen from -type and -function when no -abi file is given
SelectBuiltinABI(type, fn) ==
    IF type = "generic" \/ type = ""
    THEN ReplaceFirst(getContractABI(type), "FUNCTION_PLACEHOLDER", fn)
    ELSE getContractABI(type)

\* the selection with the placeholder replaced in the file's contents too
SelectABISubstituted(file, data, type, fn) ==
    IF file # ""
    THEN ReplaceFirst(data, "FUNCTION_PLACEHOLDER", fn)
    ELSE SelectBuiltinABI(type, fn)

\* the ABI used to bind: the file's contents when -abi is given
SelectABI(file, data, type, fn) ==
    IF file # "" THEN data ELSE SelectBuiltinABI(type, fn)

TypeLists ==
    [sig \in {"()", "(string)", "(uint8)", "(uint256)", "(address)", "(int256,bool)",
              "(string,address,bytes)"} |->
        CASE sig = "()" -> <<>>
          [] sig = "(string)" -> <<"string">>
          [] sig = "(uint8)" -> <<"uint8">>
          [] sig = "(uint256)" -> <<"uint256">>
          [] sig = "(address)" -> <<"address">>
          [] sig = "(int256,bool)" -> <<"int256", "bool">>
          [] sig = "(string,address,bytes)" -> <<"string", "address", "bytes">>]

IsAbiEntry(e) ==
    /\ e[1] = "{" /\ e[2] = "name" /\ e[4] = "inputs" /\ e[6] = "outputs" /\ e[8] = "}"
    /\ e[5] \in DOMAIN TypeLists /\ e[7] \in DOMAIN TypeLists

\* abi.JSON: the methods of a well-formed fragment
ParseABI(text) ==
    LET n     == Len(text)
        count == (n - 2) \div 8
        entry(k) == SubSeq(text, 8 * k - 6, 8 * k + 1)
        ok    == /\ n >= 2 /\ (n - 2) % 8 = 0
                 /\ text[1] = "[" /\ text[n] = "]"
                 /\ \A k \in 1..count : IsAbiEntry(entry(k))
    IN  IF ok
        THEN [ok |-> TRUE,
              methods |-> [k \in 1..count |->
                              [name |-> entry(k)[3],
                               inputs |-> TypeLists[entry(k)[5]],
                               outputs |-> TypeLists[entry(k)[7]]]]]
        ELSE [ok |-> FALSE, methods |-> <<>>]

\* ------------------------------------------------------- decoded results

BigIntResult(v) ==
    [kind |-> "bigInt", big |-> v, str |-> <<>>, bytes |-> <<>>, bool |-> FALSE]
StringResult(s) ==
    [kind |-> "string", big |-> NoBig, str |-> s, bytes |-> <<>>, bool |-> FALSE]
BytesResult(b) ==
    [kind |-> "bytes", big |-> NoBig, str |-> <<>>, bytes |-> b, bool |-> FALSE]
AddressResult(a) ==
    [kind |-> "address", big |-> NoBig, str |-> <<>>, bytes |-> a, bool |-> FALSE]
BoolResult(b) ==
    [kind |-> "bool", big |-> NoBig, str |-> <<>>, bytes |-> <<>>, bool |-> b]
\* a Go uint8: no case of the formatter's type switch names it
Uint8Result(n) ==
    [kind |-> "uint8", big |-> NoBig, str |-> <<>>, bytes |-> <<n>>, bool |-> FALSE]

\* ---------------------------------------------------------------- output

Line(tag, n, text, word) == [tag |-> tag, n |-> n, text |-> text, word |-> word]

UsageText == Line("Usage", 0, <<>>, "")

\* the fractional digits: left-padded with zeros to the full width, then
\* stripped of trailing zeros
RECURSIVE PadLeft(_, _)
PadLeft(s, width) == IF Len(s) < width THEN PadLeft(<<"0">> \o s, width) ELSE s

RECURSIVE TrimTrailingZeros(_)
TrimTrailingZeros(s) ==
    IF Len(s) > 0 /\ s[Len(s)] = "0"
    THEN TrimTrailingZeros(SubSeq(s, 1, Len(s) - 1))
    ELSE s

\* the fraction without the padding to 18 digits
FracStringUnpadded(fracPart) == TrimTrailingZeros(BigString(fracPart))

FracString(fracPart) == TrimTrailingZeros(PadLeft(BigString(fracPart), RescaleExp))

\* whether the value / 10^18 line is printed for v
ShowsDecimal(conv, v) == conv /\ Sign(v) > 0

\* the text of the value / 10^18 line
DecimalText(v) ==
    LET exp18    == NatExp(10, RescaleExp)
        intPart  == BigDiv(v, exp18)
        fracPart == BigMod(v, exp18)
        fracStr  == FracString(fracPart)
    IN  IF Len(fracStr) > 0
        THEN BigString(intPart) \o <<".">> \o fracStr
        ELSE BigString(intPart)

\* the lines one pass of the result loop prints for results[k + 1]
FormatResult(v, k, conv) ==
    CASE v.kind = "bigInt" ->
            <<Line("Result", k, BigString(v.big), "big.Int")>>
            \o (IF ShowsDecimal(conv, v.big)
                THEN <<Line("Decimal", 0, DecimalText(v.big), "decimal")>>
                ELSE <<>>)
      [] v.kind = "string" -> <<Line("Result", k, v.str, "string")>>
      [] v.kind = "bytes" -> <<Line("Result", k, <<"0", "x">> \o HexOfBytes(v.bytes), "bytes")>>
      [] v.kind = "address" -> <<Line("Result", k, AddressHex(v.bytes), "address")>>
      [] v.kind = "bool" ->
            <<Line("Result", k, IF v.bool THEN <<"t", "r", "u", "e">>
                                 ELSE <<"f", "a", "l", "s", "e">>, "bool")>>
      [] OTHER ->
            <<Line("Result", k, BigString(BigInt(FALSE, NatOfInt(v.bytes[1]))),
                   "type: uint8")>>

\* ------------------------------------------------------------ validation

\* the checks without the one on the address syntax
ValidateFlagsNoSyntax(h, addr, fn) ==
    IF h
    THEN [out |-> <<>>, err |-> <<UsageText>>, exit |-> 0]
    ELSE IF addr = <<>>
    THEN [out |-> <<Line("Error: Contract address is required", 0, <<>>, "")>>,
          err |-> <<UsageText>>, exit |-> 1]
    ELSE IF fn = ""
    THEN [out |-> <<Line("Error: Function name is required", 0, <<>>, "")>>,
          err |-> <<UsageText>>, exit |-> 1]
    ELSE [out |-> <<>>, err |-> <<>>, exit |-> -1]

\* the checks with -help looked at after the required flags
ValidateFlagsHelpLast(h, addr, fn) ==
    IF addr = <<>>
    THEN [out |-> <<Line("Error: Contract address is required", 0, <<>>, "")>>,
          err |-> <<UsageText>>, exit |-> 1]
    ELSE IF fn = ""
    THEN [out |-> <<Line("Error: Function name is required", 0, <<>>, "")>>,
          err |-> <<UsageText>>, exit |-> 1]
    ELSE IF h
    THEN [out |-> <<>>, err |-> <<UsageText>>, exit |-> 0]
    ELSE IF ~IsHexAddress(addr)
    THEN [out |-> <<Line("Error: Invalid contract address format", 0, addr, "")>>,
          err |-> <<>>, exit |-> 1]
    ELSE [out |-> <<>>, err |-> <<>>, exit |-> -1]

\* the checks between flag.Parse and the dial: what is printed where, and
\* the exit status (-1: the run goes on)
ValidateFlags(h, addr, fn) ==
    IF h
    THEN [out |-> <<>>, err |-> <<UsageText>>, exit |-> 0]
    ELSE IF addr = <<>>
    THEN [out |-> <<Line("Error: Contract address is required", 0, <<>>, "")>>,
          err |-> <<UsageText>>, exit |-> 1]
    ELSE IF fn = ""
    THEN [out |-> <<Line("Error: Function name is required", 0, <<>>, "")>>,
          err |-> <<UsageText>>, exit |-> 1]
    ELSE IF ~IsHexAddress(addr)
    THEN [out |-> <<Line("Error: Invalid contract address format", 0, addr, "")>>,
          err |-> <<>>, exit |-> 1]
    ELSE [out |-> <<>>, err |-> <<>>, exit |-> -1]

\* ---------------------------------------------------------- the view call

\* whether abi.Pack takes the typed argument for an input of the given type
ArgMatches(type, a) ==
    CASE type = "address" -> a.kind = "address"
      [] type = "uint256" -> a.kind = "bigInt" /\ ~a.big.neg
      [] type = "string" -> a.kind = "string"
      [] OTHER -> FALSE

\* whether the bound contract can encode the call at all
CanPack(methods, fn, fargs) ==
    \E k \in DOMAIN methods :
        /\ methods[k].name = fn
        /\ Len(methods[k].inputs) = Len(fargs)
        /\ \A j \in DOMAIN fargs : ArgMatches(methods[k].inputs[j], fargs[j])

OutputsOf(methods, fn) ==
    methods[CHOOSE k \in DOMAIN methods : methods[k].name = fn].outputs

\* ---------------------------------------------------------------- inputs

\* every sequence over S of length lo..hi
SeqsOf(S, lo, hi) == UNION {[1..n -> S] : n \in lo..hi}

\* the tokens of a list with a comma between neighbours
RECURSIVE Join(_)
Join(list) ==
    IF Len(list) = 0 THEN <<>>
    ELSE IF Len(list) = 1 THEN list[1]
    ELSE list[1] \o <<",">> \o Join(Tail(list))

Dec(text) == SetString(text, 10).val

\* a contract address of the Makefile
GoodAddress == <<"0", "x", "1", "5", "1", "4">> \o Rep("0", AddressHexLen - 4)

ContractInputs ==
    {<<>>, <<"0", "x", "z", "z">>, GoodAddress, SubSeq(GoodAddress, 3, Len(GoodAddress))}

FunctionNames == {"", "foo", "balanceOf", "decimals"}

ContractTypes == {"erc20", "storage", "generic", "", "custom"}

AbiFiles == {"", "abi.json"}

\* the contents an ABI file may have: a fragment that spells the placeholder
\* and declares other output types, and one cut short
CustomABI ==
    <<"[">> \o AbiEntry("FUNCTION_PLACEHOLDER", "()", "(uint256)")
            \o AbiEntry("foo", "()", "(int256,bool)")
            \o AbiEntry("balanceOf", "(uint256)", "(string,address,bytes)")
            \o <<"]">>

BrokenABI == <<"[", "{", "name", "foo">>

\* what os.ReadFile answers for the -abi path: an error, or the contents
NoFile == [ok |-> FALSE, data |-> <<>>]

FileReads == {NoFile, [ok |-> TRUE, data |-> CustomABI], [ok |-> TRUE, data |-> BrokenABI]}

\* the integers a node answers with
ReplyInts ==
    {Dec(<<"0">>), Dec(<<"5">>), Dec(<<"-", "5">>), Dec(<<"1", "5">> \o Rep("0", RescaleExp - 1))}

\* -args of a whole run: an integer, a bad hex number and an address, in
\* lists of up to MaxArgs
DriverTokens == {<<" ", "4", "2">>, <<"0", "x", "z", "z">>, GoodAddress}

DriverArgs == {<<>>} \cup {Join(l) : l \in SeqsOf(DriverTokens, 1, MaxArgs)}

\* tokens for the argument loop: a prefix and a short run of characters, and
\* a prefix and one character filled up to the lengths around that of an
\* address
TokenChars == {"0", "7", "a", "g", "-", " "}

Prefixes == {<<>>, <<"0", "x">>, <<"0", "X">>}

FillChars == {"0", "F"}

FillLens == {AddressHexLen, AddressHexLen + 1, AddressHexLen + 2}

ShortTokens == {p \o t : p \in Prefixes, t \in SeqsOf(TokenChars, 0, MaxLen)}

LongTokens ==
    {p \o <<c>> \o Rep(f, n - Len(p) - 1) :
        p \in Prefixes, c \in TokenChars, f \in FillChars, n \in FillLens}

Tokens == ShortTokens \cup LongTokens

LeadTokens == {<<>>, <<"4", "2">>}

CoerceArgs ==
    {Join(l \o <<t>>) : l \in SeqsOf(LeadTokens, 0, MaxArgs - 1), t \in Tokens}

\* integers for the result loop: an integer part (WholeDigits), and a
\* fraction of RescaleExp digits: leading zeros, a short run of digits
\* (IntDigits), zeros
IntDigits == SeqsOf({"0", "1", "9"}, 0, MaxLen)

FracDigits ==
    {Rep("9", RescaleExp)}
    \cup {Rep("0", z) \o d \o Rep("0", RescaleExp - z - Len(d)) :
            z \in 0..MaxLead, d \in IntDigits}

WholeDigits == SeqsOf({"1", "9"}, 0, MaxLen)

FormatInts ==
    {Dec(sign \o i \o f) : sign \in {<<>>, <<"-">>}, i \in WholeDigits, f \in FracDigits}

LeadResults == {BoolResult(TRUE)}

\* what the decoder yields for one output of the given ABI type
Decoded(type) ==
    CASE type = "uint256" -> {BigIntResult(v) : v \in {w \in ReplyInts : ~w.neg}}
      [] type = "int256" -> {BigIntResult(v) : v \in ReplyInts}
      [] type = "uint8" -> {Uint8Result(18)}
      [] type = "string" -> {StringResult(<<"W", "I", "P">>)}
      [] type = "bool" -> {BoolResult(TRUE), BoolResult(FALSE)}
      [] type = "address" -> {AddressResult(HexToAddress(GoodAddress))}
      [] type = "bytes" -> {BytesResult(<<>>), BytesResult(<<0, 255>>)}

\* every sequence with one element of sets[k] at each place k
RECURSIVE Product(_)
Product(sets) ==
    IF sets = <<>> THEN {<<>>}
    ELSE {<<x>> \o rest : x \in sets[1], rest \in Product(Tail(sets))}

\* the outcomes of BoundContract.Call: an error when the call cannot be
\* encoded; otherwise an error (transport, revert, decoding) or one decoded
\* value for each declared output
Replies(methods, fn, fargs) ==
    {[ok |-> FALSE, out |-> <<>>]}
    \cup (IF CanPack(methods, fn, fargs)
          THEN {[ok |-> TRUE, out |-> o] :
                  o \in Product([k \in DOMAIN OutputsOf(methods, fn) |->
                                    Decoded(OutputsOf(methods, fn)[k])])}
          ELSE {})

\* ------------------------------------------------------------- the state

VARIABLES
    help, contractAddr, functionName, contractType, abiFile, args, convert,
    file, pc, exitCode, stdout, stderr, dials, calls,
    abiString, contract, argsList, arg, functionArgs, results, idx

\* the parsed flags, and what the file system holds at the -abi path
flags == <<help, contractAddr, functionName, contractType, abiFile, args, convert, file>>
vars == <<help, contractAddr, functionName, contractType, abiFile, args, convert,
          file, pc, exitCode, stdout, stderr, dials, calls,
          abiString, contract, argsList, arg, functionArgs, results, idx>>

\* os.Exit(code) and log.Fatalf: nothing runs afterwards
Exit(code) == pc' = "exited" /\ exitCode' = code

\* a fatal log that only logs
FatalLogsOnly(tag, text) ==
    /\ stderr' = Append(stderr, Line(tag, 0, text, ""))
    /\ UNCHANGED <<pc, exitCode>>

Fatal(tag, text) ==
    /\ stderr' = Append(stderr, Line(tag, 0, text, ""))
    /\ Exit(1)

\* ------------------------------------------------------------ the actions

\* main, from flag.Parse to the dial: -help, then the required flags, then
\* the address syntax
Validate ==
    /\ pc = "validate"
    /\ LET v == ValidateFlags(help, contractAddr, functionName)
       IN  /\ stdout' = stdout \o v.out
           /\ stderr' = stderr \o v.err
           /\ IF v.exit = -1
              THEN pc' = "dial" /\ exitCode' = exitCode
              ELSE Exit(v.exit)
    /\ UNCHANGED <<flags, dials, calls, abiString, contract, argsList, arg, functionArgs,
                   results, idx>>

\* ethclient.Dial and the two lines that follow it
Dial ==
    /\ pc = "dial"
    /\ dials' = dials + 1
    /\ \E ok \in BOOLEAN :
          IF ok
          THEN /\ stdout' = stdout \o
                     <<Line("Connected to Ethereum node", 0, <<>>, ""),
                       Line("Using contract address", 0,
                            AddressHex(HexToAddress(contractAddr)), "")>>
               /\ pc' = "abi"
               /\ UNCHANGED <<stderr, exitCode>>
          ELSE /\ Fatal("Failed to connect to the Ethereum client", <<>>)
               /\ UNCHANGED stdout
    /\ UNCHANGED <<flags, calls, abiString, contract, argsList, arg, functionArgs,
                   results, idx>>

\* the ABI: read from the -abi file, or picked by -type
LoadABI ==
    /\ pc = "abi"
    /\ IF abiFile # "" /\ ~file.ok
       THEN /\ Fatal("Failed to read ABI file", <<>>)
            /\ UNCHANGED abiString
       ELSE /\ abiString' = SelectABI(abiFile, file.data, contractType, functionName)
            /\ pc' = "bind"
            /\ UNCHANGED <<stderr, exitCode>>
    /\ UNCHANGED <<flags, stdout, dials, calls, contract, argsList, arg, functionArgs,
                   results, idx>>

\* NewGenericContract: parse the ABI and bind
Bind ==
    /\ pc = "bind"
    /\ LET parsed == ParseABI(abiString)
       IN  IF parsed.ok
           THEN /\ contract' = parsed.methods
                /\ pc' = "args"
                /\ UNCHANGED <<stderr, exitCode>>
           ELSE /\ Fatal("Failed to instantiate the contract", <<>>)
                /\ UNCHANGED contract
    /\ UNCHANGED <<flags, stdout, dials, calls, abiString, argsList, arg, functionArgs,
                   results, idx>>

\* the tokens of a non-empty -args
PrepareArgs ==
    /\ pc = "args"
    /\ argsList' = IF args # <<>> THEN Split(args) ELSE <<>>
    /\ pc' = "coerce"
    /\ UNCHANGED <<flags, exitCode, stdout, stderr, dials, calls, abiString, contract,
                   arg, functionArgs, results, idx>>

\* one pass of the argument loop
CoerceNext ==
    /\ pc = "coerce"
    /\ argsList # <<>>
    /\ arg' = TrimSpace(Head(argsList))
    /\ LET c == CoerceArg(arg')
       IN  IF c.fatal
           THEN /\ Fatal("Failed to parse hex argument", arg')
                /\ UNCHANGED <<argsList, functionArgs>>
           ELSE /\ functionArgs' = Append(functionArgs, c.val)
                /\ argsList' = Tail(argsList)
                /\ UNCHANGED <<pc, exitCode, stderr>>
    /\ UNCHANGED <<flags, stdout, dials, calls, abiString, contract, results, idx>>

\* the view call, once the loop is over
Call ==
    /\ pc = "coerce"
    /\ argsList = <<>>
    /\ calls' = calls + 1
    /\ \E reply \in Replies(contract, functionName, functionArgs) :
          LET calling == Line("Calling function", Len(functionArgs), <<>>, functionName)
          IN  IF reply.ok
              THEN /\ results' = reply.out
                   /\ stdout' = stdout \o
                         <<calling, Line("Function returned successfully!", 0, <<>>, "")>>
                   /\ pc' = "format"
                   /\ idx' = 1
                   /\ UNCHANGED <<stderr, exitCode>>
              ELSE /\ stdout' = Append(stdout, calling)
                   /\ Fatal("Failed to call function", <<>>)
                   /\ UNCHANGED <<results, idx>>
    /\ UNCHANGED <<flags, dials, abiString, contract, argsList, arg, functionArgs>>

\* one pass of the result loop
FormatNext ==
    /\ pc = "format"
    /\ idx <= Len(results)
    /\ stdout' = stdout \o FormatResult(results[idx], idx - 1, convert)
    /\ idx' = idx + 1
    /\ UNCHANGED <<flags, pc, exitCode, stderr, dials, calls, abiString, contract,
                   argsList, arg, functionArgs, results>>

\* main returns
Return ==
    /\ pc = "format"
    /\ idx > Len(results)
    /\ Exit(0)
    /\ UNCHANGED <<flags, stdout, stderr, dials, calls, abiString, contract,
                   argsList, arg, functionArgs, results, idx>>

\* ---------------------------------------------------- the specifications

\* a whole run, from the parsed flags on
Init ==
    /\ help \in BOOLEAN
    /\ contractAddr \in ContractInputs
    /\ functionName \in FunctionNames
    /\ contractType \in ContractTypes
    /\ abiFile \in AbiFiles
    /\ file \in (IF abiFile = "" THEN {NoFile} ELSE FileReads)
    /\ args \in DriverArgs
    /\ convert \in BOOLEAN
    /\ pc = "validate"
    /\ exitCode = -1
    /\ stdout = <<>>
    /\ stderr = <<>>
    /\ dials = 0
    /\ calls = 0
    /\ abiString = <<>>
    /\ contract = <<>>
    /\ argsList = <<>>
    /\ arg = <<>>
    /\ functionArgs = <<>>
    /\ results = <<>>
    /\ idx = 0

Next ==
    \/ Validate
    \/ Dial
    \/ LoadABI
    \/ Bind
    \/ PrepareArgs
    \/ CoerceNext
    \/ Call
    \/ FormatNext
    \/ Return

Spec == Init /\ [][Next]_vars

\* what a run has printed once the contract is bound
BoundStdout ==
    <<Line("Connected to Ethereum node", 0, <<>>, ""),
      Line("Using contract address", 0, AddressHex(HexToAddress(GoodAddress)), "")>>

\* the argument loop and the call, from a bound ERC20 contract on
CoerceInit ==
    /\ help = FALSE
    /\ contractAddr = GoodAddress
    /\ functionName \in {"balanceOf", "totalSupply"}
    /\ contractType = "erc20"
    /\ abiFile = ""
    /\ file = NoFile
    /\ args \in CoerceArgs
    /\ convert = FALSE
    /\ pc = "args"
    /\ exitCode = -1
    /\ stdout = BoundStdout
    /\ stderr = <<>>
    /\ dials = 1
    /\ calls = 0
    /\ abiString = SelectABI(abiFile, <<>>, contractType, functionName)
    /\ contract = ParseABI(abiString).methods
    /\ argsList = <<>>
    /\ arg = <<>>
    /\ functionArgs = <<>>
    /\ results = <<>>
    /\ idx = 0

CoerceStep ==
    \/ PrepareArgs
    \/ CoerceNext
    \/ Call

CoerceSpec == CoerceInit /\ [][CoerceStep]_vars

\* the result loop, from a call that returned on
FormatInit ==
    /\ help = FALSE
    /\ contractAddr = GoodAddress
    /\ functionName = "foo"
    /\ contractType = "generic"
    /\ abiFile = "abi.json"
    /\ file = [ok |-> TRUE, data |-> CustomABI]
    /\ args = <<>>
    /\ convert \in BOOLEAN
    /\ pc = "format"
    /\ exitCode = -1
    /\ stdout = BoundStdout \o
                <<Line("Calling function", 0, <<>>, functionName),
                  Line("Function returned successfully!", 0, <<>>, "")>>
    /\ stderr = <<>>
    /\ dials = 1
    /\ calls = 1
    /\ abiString = file.data
    /\ contract = ParseABI(abiString).methods
    /\ argsList = <<>>
    /\ arg = <<>>
    /\ functionArgs = <<>>
    /\ results \in {l \o <<BigIntResult(v)>> :
                      l \in SeqsOf(LeadResults, 0, MaxResults - 1), v \in FormatInts}
    /\ idx = 1

FormatStep ==
    \/ FormatNext
    \/ Return

FormatSpec == FormatInit /\ [][FormatStep]_vars

\* ------------------------------------------------- vocabulary of the claims

Last(s) == s[Len(s)]

Tags(lines) == {lines[i].tag : i \in DOMAIN lines}

\* a well-formed 20-byte hex address: an optional 0x or 0X, then 40 hex
\* characters of either case
IsAddressText(t) ==
    \/ Len(t) = AddressHexLen /\ \A i \in DOMAIN t : IsHexChar(t[i])
    \/ /\ Len(t) = AddressHexLen + 2
       /\ t[1] = "0" /\ t[2] \in {"x", "X"}
       /\ \A i \in 3..Len(t) : IsHexChar(t[i])

HasHexPrefix(t) == Len(t) >= 2 /\ t[1] = "0" /\ t[2] = "x"

Unsigned(t) == IF t # <<>> /\ t[1] \in {"+", "-"} THEN SubSeq(t, 2, Len(t)) ELSE t

\* a base-10 number: an optional sign and one or more decimal digits
IsDecimalText(t) ==
    Unsigned(t) # <<>> /\ \A i \in DOMAIN Unsigned(t) : Unsigned(t)[i] \in Range(DecChars)

\* a base-16 number: an optional sign and one or more hex digits
IsHexText(t) ==
    Unsigned(t) # <<>> /\ \A i \in DOMAIN Unsigned(t) : IsHexChar(Unsigned(t)[i])

LowerText(t) == [i \in DOMAIN t |-> LowerHexChars[DigitVal(t[i]) + 1]]

\* pairwise coprime moduli whose product is above 2^179: two naturals below
\* 16^44 and 10^52 are equal when they agree modulo each of them
Moduli ==
    {32749, 32719, 32717, 32713, 32707, 32693, 32687, 32653, 32647, 32633, 32621, 32611}

RECURSIVE PowMod(_, _, _)
PowMod(b, e, p) ==
    IF e = 0 THEN 1
    ELSE LET h == PowMod(b, e \div 2, p)
         IN  (((h * h) % p) * (IF e % 2 = 1 THEN b ELSE 1)) % p

RECURSIVE SumMod(_, _, _, _)
SumMod(f, lo, hi, p) ==
    IF lo > hi THEN 0
    ELSE IF lo = hi THEN f[lo] % p
    ELSE (SumMod(f, lo, (lo + hi) \div 2, p) + SumMod(f, (lo + hi) \div 2 + 1, hi, p)) % p

\* the number written by the digits d in a base, modulo p
DigitsMod(d, base, p) ==
    SumMod([i \in DOMAIN d |-> DigitVal(d[i]) * PowMod(base, Len(d) - i, p)], 1, Len(d), p)

\* the number held by the limbs m, modulo p
LimbsMod(m, p) ==
    SumMod([i \in DOMAIN m |-> m[i] * PowMod(LimbBase, i - 1, p)], 1, Len(m), p)

\* the integer v is the number the text t writes in the base
IsValueOf(v, t, base) ==
    /\ Len(Unsigned(t)) <= 44 /\ Len(v.mag) <= 13
    /\ \A i \in DOMAIN v.mag : v.mag[i] \in 0..(LimbBase - 1)
    /\ v.mag # <<>> => Last(v.mag) # 0
    /\ \A p \in Moduli : DigitsMod(Unsigned(t), base, p) = LimbsMod(v.mag, p)
    /\ v.neg = (t[1] = "-" /\ v.mag # <<>>)

\* the j-th comma-delimited field of s
Field(s, j) ==
    LET at == {i \in DOMAIN s : s[i] # "," /\ Cardinality({q \in 1..i : s[q] = ","}) = j - 1}
    IN  IF at = {} THEN <<>> ELSE SubSeq(s, Min(at), Max(at))

FieldCount(s) == Cardinality({i \in DOMAIN s : s[i] = ","}) + 1

\* the run died on a hex argument
HexFatal ==
    pc = "exited" /\ stderr # <<>> /\ Last(stderr).tag = "Failed to parse hex argument"

\* the argument loop has just turned the token arg into the last argument
Coerced == functionArgs # <<>> /\ ~HexFatal

\* the view call has been made
Called == calls = 1

\* the argument count the run reported, -1 when it reported none or several
ReportedCount ==
    LET at == {i \in DOMAIN stdout : stdout[i].tag = "Calling function"}
    IN  IF Cardinality(at) = 1 THEN stdout[CHOOSE i \in at : TRUE].n ELSE -1

\* the flags hold a usage error
UsageError == contractAddr = <<>> \/ functionName = "" \/ ~IsAddressText(contractAddr)

UsageErrorTags ==
    {"Error: Contract address is required", "Error: Function name is required",
     "Error: Invalid contract address format"}

FatalTags ==
    {"Failed to connect to the Ethereum client", "Failed to read ABI file",
     "Failed to instantiate the contract", "Failed to parse hex argument",
     "Failed to call function"}

ResultTags == {"Function returned successfully!", "Result", "Decimal"}

\* ----------------------------------------------------------------- claims

\* C1, as stated: every base-10 numeric token is coerced to the integer of
\* its decimal value, and every token that is no address, does not start
\* with 0x and is no base-10 number is coerced to itself as a string; no
\* token without 0x ends the run.
C1_Original ==
    /\ HexFatal => HasHexPrefix(arg)
    /\ Coerced =>
           /\ IsDecimalText(arg) =>
                 /\ Last(functionArgs).kind = "bigInt"
                 /\ IsValueOf(Last(functionArgs).big, arg, 10)
           /\ (~IsAddressText(arg) /\ ~HasHexPrefix(arg) /\ ~IsDecimalText(arg)) =>
                 /\ Last(functionArgs).kind = "string"
                 /\ Last(functionArgs).str = arg

\* C1, amended: every base-10 numeric token that is not a well-formed hex
\* address (a run of exactly 40 decimal digits is one) is coerced to the
\* integer of its decimal value, and every token that is no address, does
\* not start with 0x and is no base-10 number is coerced to itself as a
\* string; no token without 0x ends the run.
C1_Amended ==
    /\ HexFatal => HasHexPrefix(arg)
    /\ Coerced =>
           /\ (IsDecimalText(arg) /\ ~IsAddressText(arg)) =>
                 /\ Last(functionArgs).kind = "bigInt"
                 /\ IsValueOf(Last(functionArgs).big, arg, 10)
           /\ (~IsAddressText(arg) /\ ~HasHexPrefix(arg) /\ ~IsDecimalText(arg)) =>
                 /\ Last(functionArgs).kind = "string"
                 /\ Last(functionArgs).str = arg

\* a decimal token longer than an address has become an integer
C1_Witness ==
    /\ Coerced
    /\ IsDecimalText(arg)
    /\ Len(arg) > AddressHexLen
    /\ Last(functionArgs).kind = "bigInt"
    /\ Len(BigString(Last(functionArgs).big)) > AddressHexLen

\* C2, as stated: the call is made with exactly one typed argument for each
\* comma-delimited token of -args that is not empty after trimming, in the
\* order of the tokens; an empty -args gives no arguments; the reported
\* argument count is the number of arguments.
C2_Claim ==
    Called =>
        LET keep == {j \in 1..FieldCount(args) : TrimSpace(Field(args, j)) # <<>>}
            nth(k) == CHOOSE j \in keep : Cardinality({i \in keep : i < j}) = k - 1
        IN  /\ Len(functionArgs) = Cardinality(keep)
            /\ \A k \in DOMAIN functionArgs :
                  functionArgs[k] = CoerceArg(TrimSpace(Field(args, nth(k)))).val
            /\ ReportedCount = Len(functionArgs)
            /\ args = <<>> => functionArgs = <<>>

\* C3, as stated: with no ABI file the fragment is the ERC20 one for erc20,
\* the storage one for storage, and for every other tag the fallback with
\* the function name in the placeholder's place, no inputs and one uint256
\* output.
C3_Claim ==
    (abiFile = "" /\ pc \in {"bind", "args", "coerce", "format"}) =>
        abiString =
            CASE contractType = "erc20" -> ERC20ABI
              [] contractType = "storage" -> SimpleStorageABI
              [] OTHER -> <<"[">> \o AbiEntry(functionName, "()", "(uint256)") \o <<"]">>

\* C4: a token is coerced by the first rule that matches: an address text
\* becomes that address; otherwise a token starting with 0x becomes the
\* base-16 integer of the rest, and when the rest is no base-16 number the
\* run dies with status 1, no call made and no argument added for the
\* token; otherwise a base-10 number becomes that integer; otherwise the
\* token becomes itself as a string.
C4_Priority ==
    /\ Coerced =>
          LET a    == Last(functionArgs)
              rest == SubSeq(arg, 3, Len(arg))
          IN  IF IsAddressText(arg)
              THEN /\ a.kind = "address"
                   /\ HexOfBytes(a.addr)
                        = LowerText(SubSeq(arg, Len(arg) - AddressHexLen + 1, Len(arg)))
              ELSE IF HasHexPrefix(arg)
              THEN IsHexText(rest) /\ a.kind = "bigInt" /\ IsValueOf(a.big, rest, 16)
              ELSE IF IsDecimalText(arg)
              THEN a.kind = "bigInt" /\ IsValueOf(a.big, arg, 10)
              ELSE a.kind = "string" /\ a.str = arg
    /\ HexFatal =>
          /\ HasHexPrefix(arg) /\ ~IsAddressText(arg) /\ ~IsHexText(SubSeq(arg, 3, Len(arg)))
          /\ exitCode = 1
          /\ calls = 0
          /\ Len(functionArgs) + Len(argsList) = FieldCount(args)
          /\ TrimSpace(Head(argsList)) = arg

\* the run died on the hex token that followed an integer argument
C4_Witness ==
    /\ HexFatal
    /\ Len(functionArgs) = 1
    /\ functionArgs[1].kind = "bigInt"
    /\ Len(arg) > AddressHexLen

\* C5, as stated: when -contract is missing, -function is missing or
\* -contract is no well-formed hex address, the run ends with status 1 and
\* dials nothing and calls nothing.
C5_Original ==
    UsageError =>
        /\ pc \in {"validate", "exited"}
        /\ pc = "exited" => exitCode = 1
        /\ dials = 0 /\ calls = 0

\* C5, amended: when -contract is missing, -function is missing or
\* -contract is no well-formed hex address, the run dials nothing and calls
\* nothing, and it ends with status 1 unless -help is set, in which case it
\* ends with status 0.
C5_Amended ==
    UsageError =>
        /\ pc \in {"validate", "exited"}
        /\ pc = "exited" => exitCode = IF help THEN 0 ELSE 1
        /\ dials = 0 /\ calls = 0

\* a run with both required flags and a malformed address has ended with
\* status 1 before any dial
C5_Witness ==
    /\ pc = "exited" /\ exitCode = 1
    /\ ~help /\ contractAddr # <<>> /\ functionName # ""
    /\ ~IsAddressText(contractAddr)
    /\ dials = 0 /\ calls = 0

\* C6, as stated: a run that ends on a usage error has written the error
\* and the usage text to standard error, and its status is 1.
C6_Claim ==
    (pc = "exited" /\ UsageError /\ ~help) =>
        /\ exitCode = 1
        /\ Tags(stderr) \cap UsageErrorTags # {}
        /\ UsageText \in Range(stderr)

\* C7: for an integer result v the line of v / 10^18 is printed exactly when
\* the conversion is asked for and v > 0; the line is an integer part with no
\* leading zero, and either nothing more (the fraction is zero) or a point
\* and at most 18 digits that do not end in zero; the integer part followed
\* by the fraction filled with zeros to 18 digits writes v.
C7_Rescale ==
    \A k \in 1..(idx - 1) :
        results[k].kind = "bigInt" =>
            LET v     == results[k].big
                at    == {i \in DOMAIN stdout : stdout[i].tag = "Result" /\ stdout[i].n = k - 1}
                i     == CHOOSE j \in at : TRUE
                shown == i < Len(stdout) /\ stdout[i + 1].tag = "Decimal"
                d     == stdout[i + 1].text
                dots  == {j \in DOMAIN d : d[j] = "."}
                int   == IF dots = {} THEN d ELSE SubSeq(d, 1, Min(dots) - 1)
                frac  == IF dots = {} THEN <<>> ELSE SubSeq(d, Min(dots) + 1, Len(d))
            IN  /\ Cardinality(at) = 1
                /\ shown <=> (convert /\ ~v.neg /\ v.mag # <<>>)
                /\ shown =>
                      /\ Cardinality(dots) <= 1
                      /\ int # <<>> /\ Range(int) \subseteq Range(DecChars)
                      /\ Len(int) > 1 => int[1] # "0"
                      /\ Range(frac) \subseteq Range(DecChars)
                      /\ Len(frac) <= RescaleExp
                      /\ dots # {} => (frac # <<>> /\ Last(frac) # "0")
                      /\ IsValueOf(v, int \o frac \o Rep("0", RescaleExp - Len(frac)), 10)

\* the result loop is over and has printed a fraction that starts with a
\* zero after a result of another kind
C7_Witness ==
    /\ convert /\ idx > Len(results) /\ Len(results) = 2
    /\ \E i \in DOMAIN stdout :
          /\ stdout[i].tag = "Decimal"
          /\ \E j \in 2..(Len(stdout[i].text) - 2) :
                /\ stdout[i].text[j] = "."
                /\ stdout[i].text[j + 1] = "0"

\* C8: the view call is made at most once; once a fatal line is written the
\* run is over with status 1, nothing more can run, no success header and no
\* result line was or will be printed, and no call was made when the failure
\* came before the call; a run that printed the header or a result made
\* exactly one call.
C8_Terminal ==
    /\ calls <= 1
    /\ Tags(stderr) \cap FatalTags # {} =>
          /\ pc = "exited" /\ exitCode = 1
          /\ ~ENABLED Next
          /\ Last(stderr).tag \in FatalTags
          /\ Cardinality({i \in DOMAIN stderr : stderr[i].tag \in FatalTags}) = 1
          /\ Tags(stdout) \cap ResultTags = {}
          /\ Last(stderr).tag # "Failed to call function" => calls = 0
    /\ Tags(stdout) \cap ResultTags # {} => calls = 1
    /\ pc = "exited" => ~ENABLED Next

\* the call failed after two arguments were coerced, and the run is over
C8_Witness ==
    /\ pc = "exited" /\ exitCode = 1
    /\ calls = 1
    /\ Len(functionArgs) = 2
    /\ stderr # <<>> /\ Last(stderr).tag = "Failed to call function"

\* C9: with an -abi path, the fragment the contract is bound from is the
\* contents of the file, whatever -type and -function are, and a placeholder
\* in the file stays as it is.
C9_Verbatim ==
    (abiFile # "" /\ (pc \in {"bind", "args", "coerce", "format"} \/ abiString # <<>>)) =>
        abiString = file.data

\* a contract of the generic type was bound from a file that holds the
\* placeholder
C9_Witness ==
    /\ abiFile # "" /\ contractType = "generic" /\ functionName = "foo"
    /\ pc = "args"
    /\ "FUNCTION_PLACEHOLDER" \in Range(abiString)
    /\ \E k \in DOMAIN contract : contract[k].name = "FUNCTION_PLACEHOLDER"

\* C10: with -help the run prints the usage and ends with status 0 whatever
\* the other flags are, dialling nothing and calling nothing; a run that
\* ends with status 1 on a usage error had no -help.
C10_HelpFirst ==
    /\ help =>
          /\ pc \in {"validate", "exited"}
          /\ dials = 0 /\ calls = 0
          /\ pc = "exited" => exitCode = 0 /\ stderr = <<UsageText>> /\ stdout = <<>>
    /\ (pc = "exited" /\ exitCode = 1 /\ UsageError) => ~help

\* a run with -help, no function name and a malformed address has ended
\* with status 0
C10_Witness ==
    /\ help /\ functionName = "" /\ contractAddr # <<>> /\ ~IsAddressText(contractAddr)
    /\ pc = "exited" /\ exitCode = 0
    /\ UsageText \in Range(stderr)

====
